---- MODULE Spec2Model ----
(***************************************************************************)
(* Model of the TSPL label printers of this repository:                    *)
(*   - ThermalPrinter (barcode_printer_gui.py) with its three transports:  *)
(*     dry-run console, streaming device file, Windows job spooler;        *)
(*   - Printer / Badge (print-badge.py) with dry-run and device file.      *)
(* One action per statement group of print_barcode / print: each           *)
(* can_print() call, each sleep, each command() call, the flush, close.    *)
(* Strings and byte strings are sequences of atoms: a command line is one  *)
(* atom (a tuple naming the command and its operands), the terminators     *)
(* CRLF and LF are atoms of their own.  Times are in tenths of a second.   *)
(***************************************************************************)
EXTENDS Integers, Sequences, FiniteSets, TLC

VARIABLES
    obj,        \* which object the caller holds: "none", "gui", "badge"
    dry_run,    \* ThermalPrinter.dry_run / params.dry_run
    is_windows, \* ThermalPrinter.is_windows
    printer,    \* the file descriptor: "None", "open", "closed"
    hasBuf,     \* hasattr(self, '_command_buffer')
    buf,        \* self._command_buffer: list of strings
    pc,         \* position of the caller / of the running print operation
    config,     \* the BarcodeConfig passed to print_barcode
    params,     \* the argparse namespace of print-badge.py
    y_pos,      \* local y_pos of print_barcode
    err,        \* exception that left the running operation, or "none"
    emitted,    \* arguments of the command() calls of this operation
    wire,       \* chunks os.write() sent to the device in this operation
    stdout,     \* what this operation printed on the console
    spool,      \* win32print calls of this operation
    sleeps,     \* time.sleep() arguments of this operation, in order
    nreads,     \* os.read() calls of this operation
    responses,  \* byte strings the os.read() calls of this operation returned
    devIO,      \* kinds of device I/O done by this object since construction
    ops         \* print operations started so far

vars == <<obj, dry_run, is_windows, printer, hasBuf, buf, pc, config, params,
          y_pos, err, emitted, wire, stdout, spool, sleeps, nreads,
          responses, devIO, ops>>

----------------------------------------------------------------------------
(* Bounds *)

MaxOps == 2

MaxNotReady == 2

----------------------------------------------------------------------------
(* Program constants *)

DOTS_MM == 8

TOP_MARGIN == 10

TEXT_GAP == 10

BARCODE_GAP == 20

SHORT_SLEEP == 5

LONG_SLEEP == 10

STATUS_READ_LEN == 8

WIDTH_MM == 100

HEIGHT_MM == 35

GAP_MM == 2

FONT_WIDTH == 36

FONT_HEIGHT == 36

BADGE_GAP_MM == 5

LINES_GAP_MM == 1

CRLF == <<"\r\n">>

LF == <<"\n">>

PROBE == << <<"ESC!S">>, CRLF >>

----------------------------------------------------------------------------
(* Label configurations *)

DefaultConfig ==
    [width_mm |-> 100, height_mm |-> 50, gap_mm |-> 2,
     barcode_type |-> "code128", barcode_height |-> 15, barcode_width |-> 2,
     font_size |-> 24, top_text |-> "", bottom_text |-> "",
     barcode_data |-> "", orientation |-> 1, num_copies |-> 1]

CustomConfig ==
    [width_mm |-> 75, height_mm |-> 35, gap_mm |-> 3,
     barcode_type |-> "ean13", barcode_height |-> 10, barcode_width |-> 3,
     font_size |-> 18, top_text |-> "", bottom_text |-> "",
     barcode_data |-> "", orientation |-> 0, num_copies |-> 2]

Profiles == {DefaultConfig, CustomConfig}

TopTexts == {"", "PRODUCT"}

BarcodeDatas == {"", "123456789012"}

BottomTexts == {"", "Made in USA"}

\* configurations a caller can build that the form's spin boxes and defaults
\* do not offer: a zero width, a negative height, and the default label
\* with another symbology selected
ZeroWidthConfig ==
    [DefaultConfig EXCEPT !.width_mm = 0, !.top_text = "PRODUCT",
                          !.barcode_data = "123456789012"]

NegativeHeightConfig ==
    [CustomConfig EXCEPT !.height_mm = -5, !.bottom_text = "Made in USA"]

Ean13Config ==
    [DefaultConfig EXCEPT !.barcode_type = "ean13",
                          !.barcode_data = "123456789012"]

Configs ==
    { [p EXCEPT !.top_text = t, !.barcode_data = d, !.bottom_text = b] :
        p \in Profiles, t \in TopTexts, d \in BarcodeDatas, b \in BottomTexts }
    \cup {ZeroWidthConfig, NegativeHeightConfig, Ean13Config}

NoParams == [line1 |-> "", line2 |-> "", orient |-> 1, num |-> 1]

BadgeLines == {"", "Ann"}

BadgeParams ==
    [line1 : BadgeLines, line2 : BadgeLines, orient : {0, 1}, num : {1, 2}]

----------------------------------------------------------------------------
(* Byte strings read from the device *)

\* <STX> @@@@ <ETX> <CR> <LF>: idle
Ready1 == <<2, 64, 64, 64, 64, 3, 13, 10>>

\* head open (B), with a first byte that is not ASCII
Ready2 == <<255, 66, 64, 64, 64, 3, 13, 10>>

\* a read that returned only five bytes
Ready5 == <<2, 64, 64, 64, 64>>

\* E@@@
Busy1 == <<2, 69, 64, 64, 64, 3, 13, 10>>

\* a read that returned only three bytes
Short1 == <<2, 64, 64>>

\* a byte of the token is not ASCII
Garbled == <<2, 64, 255, 64, 64, 3, 13, 10>>

\* what the device may answer to one status probe
DeviceResponses == {Ready1, Ready2, Ready5, Busy1, Short1, Garbled}

Min(a, b) == IF a < b THEN a ELSE b

\* status[lo:hi] of Python, 0-based and half-open, clipped to the length
Slice(s, lo, hi) == SubSeq(s, lo + 1, Min(hi, Len(s)))

Decodable_lenient(bs) == TRUE

\* bytes.decode('ascii') raises UnicodeDecodeError on any byte above 127
Decodable(bs) == \A i \in 1..Len(bs) : bs[i] < 128

AsciiChar(b) ==
    CASE b = 64 -> "@"
      [] b = 66 -> "B"
      [] b = 67 -> "C"
      [] b = 69 -> "E"
      [] b = 70 -> "F"
      [] b = 80 -> "P"
      [] b = 87 -> "W"
      [] OTHER  -> "ctl"

Decode(bs) == [i \in 1..Len(bs) |-> AsciiChar(bs[i])]

\* the token printer_status() returns for the response r
StatusToken(r) == Decode(Slice(r, 1, 5))

StatusPattern_E ==
    << {"@", "B", "C", "E", "F", "P", "W"}, {"@"}, {"@"}, {"@"} >>

\* r'[@BCFPW]@@@' as a sequence of character classes
StatusPattern == << {"@", "B", "C", "F", "P", "W"}, {"@"}, {"@"}, {"@"} >>

RECURSIVE FullMatch(_, _)
FullMatch(pat, s) ==
    IF pat = <<>> THEN s = <<>>
    ELSE /\ s # <<>>
         /\ Head(s) \in Head(pat)
         /\ FullMatch(Tail(pat), Tail(s))

CanPrintToken_any(tok) == TRUE

\* can_print() on a decoded token
CanPrintToken(tok) == FullMatch(StatusPattern, tok)

----------------------------------------------------------------------------
(* Streams and lines *)

RECURSIVE Join(_)
Join(ss) == IF ss = <<>> THEN <<>> ELSE Head(ss) \o Join(Tail(ss))

SelectChunks(w) == SelectSeq(w, LAMBDA ch : ch # PROBE)

\* the lines of a stream whose lines end with the terminator term
RECURSIVE SplitLines(_, _, _)
SplitLines(stream, term, cur) ==
    IF stream = <<>> THEN (IF cur = <<>> THEN <<>> ELSE <<cur>>)
    ELSE IF Head(stream) = term
         THEN <<cur>> \o SplitLines(Tail(stream), term, <<>>)
         ELSE SplitLines(Tail(stream), term, Append(cur, Head(stream)))

Variant == IF dry_run THEN "dry" ELSE IF is_windows THEN "win" ELSE "dev"

----------------------------------------------------------------------------
(* Command lines *)

Truthy_always(s) == TRUE

Truthy(s) == s # ""

XCenter(c) == (c.width_mm * DOTS_MM) \div 2

SizeCmd(c) == <<"SIZE", c.width_mm, c.height_mm>>

GapCmd_swapped(c) == <<"GAP", 0, c.gap_mm>>

GapCmd(c) == <<"GAP", c.gap_mm, 0>>

CodepageCmd == <<"CODEPAGE", "UTF-8">>

DirectionCmd(c) == <<"DIRECTION", c.orientation>>

ClsCmd == <<"CLS">>

TextCmd(c, y, text) ==
    <<"TEXT", XCenter(c), y, "0", 0, c.font_size, c.font_size, 2, text>>

BarcodeHeightDots(c) == c.barcode_height * DOTS_MM

BarcodeCmd(c, y) ==
    <<"BARCODE", XCenter(c), y, "128", BarcodeHeightDots(c), 1, 0,
      c.barcode_width, 2, c.barcode_data>>

PrintCmd_swapped(c) == <<"PRINT", c.num_copies, 1>>

PrintCmd(c) == <<"PRINT", 1, c.num_copies>>

StartY_stale == y_pos

\* y_pos = 10
StartY == TOP_MARGIN

----------------------------------------------------------------------------
(* What one operation put on its transport, as lines *)

WritePayloads(sp) ==
    Join([i \in 1..Len(SelectSeq(sp, LAMBDA e : e.call = "WritePrinter")) |->
            SelectSeq(sp, LAMBDA e : e.call = "WritePrinter")[i].data])

OutputLines ==
    IF dry_run THEN SplitLines(stdout, LF, <<>>)
    ELSE IF is_windows THEN SplitLines(WritePayloads(spool), CRLF, <<>>)
    ELSE SplitLines(Join(SelectChunks(wire)), CRLF, <<>>)

----------------------------------------------------------------------------
(* Initial state: no printer object has been constructed *)

Init ==
    /\ obj = "none"
    /\ dry_run = FALSE
    /\ is_windows = FALSE
    /\ printer = "None"
    /\ hasBuf = FALSE
    /\ buf = <<>>
    /\ pc = "none"
    /\ config = DefaultConfig
    /\ params = NoParams
    /\ y_pos = 0
    /\ err = "none"
    /\ emitted = <<>>
    /\ wire = <<>>
    /\ stdout = <<>>
    /\ spool = <<>>
    /\ sleeps = <<>>
    /\ nreads = 0
    /\ responses = <<>>
    /\ devIO = {}
    /\ ops = 0

BetweenCalls ==
    pc \in {"none", "idle", "returned", "raised", "closed", "ended"}

\* ThermalPrinter.__init__
Construct ==
    /\ BetweenCalls
    /\ ops < MaxOps
    /\ \E dry \in BOOLEAN, win \in BOOLEAN, ok \in BOOLEAN :
         /\ dry => ok
         /\ dry_run' = dry
         /\ is_windows' = win
         /\ hasBuf' = FALSE
         /\ buf' = <<>>
         /\ obj' = IF ok THEN "gui" ELSE "none"
         /\ pc' = IF ok THEN "idle" ELSE "none"
         /\ err' = IF ok THEN "none" ELSE "OpenError"
         /\ printer' = IF ~dry /\ ~win /\ ok THEN "open" ELSE "None"
         /\ devIO' = IF ~dry /\ ~win THEN {"open"} ELSE {}
    /\ config' = DefaultConfig
    /\ params' = NoParams
    /\ y_pos' = 0
    /\ emitted' = <<>>
    /\ wire' = <<>>
    /\ stdout' = <<>>
    /\ spool' = <<>>
    /\ sleeps' = <<>>
    /\ nreads' = 0
    /\ responses' = <<>>
    /\ UNCHANGED ops

\* entry of ThermalPrinter.print_barcode
PrintBarcode ==
    /\ obj = "gui"
    /\ pc \in {"idle", "returned", "raised"}
    /\ ops < MaxOps
    /\ \E c \in Configs : config' = c
    /\ pc' = "wait"
    /\ err' = "none"
    /\ ops' = ops + 1
    /\ emitted' = <<>>
    /\ wire' = <<>>
    /\ stdout' = <<>>
    /\ spool' = <<>>
    /\ sleeps' = <<>>
    /\ nreads' = 0
    /\ responses' = <<>>
    /\ UNCHANGED <<obj, dry_run, is_windows, printer, hasBuf, buf, params,
                   y_pos, devIO>>

Raise(e) == pc' = "raised" /\ err' = e

\* printer_status() and can_print() on the device file: one probe write,
\* one read of 8 bytes, slice, decode, match
StatusQuery(ready, notready) ==
    \/ /\ Raise("OSError")
       /\ devIO' = devIO \cup {"write"}
       /\ UNCHANGED <<wire, nreads, responses>>
    \/ /\ Raise("OSError")
       /\ wire' = Append(wire, PROBE)
       /\ nreads' = nreads + 1
       /\ devIO' = devIO \cup {"write", "read"}
       /\ UNCHANGED responses
    \/ \E d \in DeviceResponses :
         LET r == Slice(d, 0, STATUS_READ_LEN) IN
         /\ wire' = Append(wire, PROBE)
         /\ nreads' = nreads + 1
         /\ devIO' = devIO \cup {"write", "read"}
         /\ responses' = Append(responses, r)
         /\ IF ~Decodable(Slice(r, 1, 5))
            THEN Raise("UnicodeDecodeError")
            ELSE IF CanPrintToken(StatusToken(r))
                 THEN pc' = ready /\ err' = err
                 ELSE /\ Len(sleeps) < MaxNotReady
                      /\ pc' = notready
                      /\ err' = err

\* ThermalPrinter.can_print
CanPrint(ready, notready) ==
    IF dry_run \/ is_windows
    THEN /\ pc' = ready
         /\ UNCHANGED <<err, wire, nreads, responses, devIO>>
    ELSE StatusQuery(ready, notready)

WaitPrinter_nodry ==
    /\ obj = "gui"
    /\ pc = "wait"
    /\ StatusQuery("SIZE", "sleep_short")
    /\ UNCHANGED <<obj, dry_run, is_windows, printer, hasBuf, buf, config,
                   params, y_pos, emitted, stdout, spool, sleeps, ops>>

\* wait_printer up to its first can_print()
WaitPrinter ==
    /\ obj = "gui"
    /\ pc = "wait"
    /\ IF dry_run
       THEN /\ pc' = "SIZE"
            /\ UNCHANGED <<err, wire, nreads, responses, devIO>>
       ELSE CanPrint("SIZE", "sleep_short")
    /\ UNCHANGED <<obj, dry_run, is_windows, printer, hasBuf, buf, config,
                   params, y_pos, emitted, stdout, spool, sleeps, ops>>

\* time.sleep(0.5) after the first failed check
SleepShort ==
    /\ pc = "sleep_short"
    /\ sleeps' = Append(sleeps, SHORT_SLEEP)
    /\ pc' = "loop"
    /\ UNCHANGED <<obj, dry_run, is_windows, printer, hasBuf, buf, config,
                   params, y_pos, err, emitted, wire, stdout, spool, nreads,
                   responses, devIO, ops>>

\* the condition of `while not self.can_print()`
WaitLoop ==
    /\ obj = "gui"
    /\ pc = "loop"
    /\ CanPrint("SIZE", "sleep_long")
    /\ UNCHANGED <<obj, dry_run, is_windows, printer, hasBuf, buf, config,
                   params, y_pos, emitted, stdout, spool, sleeps, ops>>

SleepLong_short ==
    /\ pc = "sleep_long"
    /\ sleeps' = Append(sleeps, SHORT_SLEEP)
    /\ pc' = "loop"
    /\ UNCHANGED <<obj, dry_run, is_windows, printer, hasBuf, buf, config,
                   params, y_pos, err, emitted, wire, stdout, spool, nreads,
                   responses, devIO, ops>>

\* time.sleep(1) in the loop body
SleepLong ==
    /\ pc = "sleep_long"
    /\ sleeps' = Append(sleeps, LONG_SLEEP)
    /\ pc' = "loop"
    /\ UNCHANGED <<obj, dry_run, is_windows, printer, hasBuf, buf, config,
                   params, y_pos, err, emitted, wire, stdout, spool, nreads,
                   responses, devIO, ops>>

DeviceWrite_retry(cmd, next) ==
    \/ /\ wire' = wire \o << <<cmd>>, <<CRLF>> >>
       /\ pc' = next
       /\ err' = err
    \/ /\ wire' = wire
       /\ Raise("OSError")
    \/ /\ wire' = wire \o << <<cmd>>, <<cmd>>, <<CRLF>> >>
       /\ pc' = next
       /\ err' = "OSError"

\* the two os.write() calls of command() on the device file
DeviceWrite(cmd, next) ==
    \/ /\ wire' = wire \o << <<cmd>>, <<CRLF>> >>
       /\ pc' = next
       /\ err' = err
    \/ /\ wire' = wire
       /\ Raise("OSError")
    \/ /\ wire' = Append(wire, <<cmd>>)
       /\ Raise("OSError")

\* ThermalPrinter.command
Command(cmd, next) ==
    /\ emitted' = Append(emitted, cmd)
    /\ IF dry_run
       THEN /\ stdout' = stdout \o <<cmd, LF>>
            /\ pc' = next
            /\ UNCHANGED <<err, wire, buf, hasBuf, devIO>>
       ELSE IF is_windows
            THEN /\ hasBuf' = TRUE
                 /\ buf' = Append(IF hasBuf THEN buf ELSE <<>>, <<cmd, CRLF>>)
                 /\ pc' = next
                 /\ UNCHANGED <<err, wire, stdout, devIO>>
            ELSE /\ DeviceWrite(cmd, next)
                 /\ devIO' = devIO \cup {"write"}
                 /\ UNCHANGED <<stdout, buf, hasBuf>>

CmdFrame == <<obj, dry_run, is_windows, printer, config, params, spool,
              sleeps, nreads, responses, ops>>

\* setup_page, one command() call at a time
SetupSize ==
    /\ obj = "gui" /\ pc = "SIZE"
    /\ Command(SizeCmd(config), "GAP")
    /\ UNCHANGED <<CmdFrame, y_pos>>

SetupGap ==
    /\ obj = "gui" /\ pc = "GAP"
    /\ Command(GapCmd(config), "CODEPAGE")
    /\ UNCHANGED <<CmdFrame, y_pos>>

SetupCodepage ==
    /\ obj = "gui" /\ pc = "CODEPAGE"
    /\ Command(CodepageCmd, "DIRECTION")
    /\ UNCHANGED <<CmdFrame, y_pos>>

SetupDirection ==
    /\ obj = "gui" /\ pc = "DIRECTION"
    /\ Command(DirectionCmd(config), "CLS")
    /\ UNCHANGED <<CmdFrame, y_pos>>

SetupCls ==
    /\ obj = "gui" /\ pc = "CLS"
    /\ Command(ClsCmd, "TOP")
    /\ UNCHANGED <<CmdFrame, y_pos>>

Skip(next) ==
    /\ pc' = next
    /\ UNCHANGED <<err, emitted, wire, stdout, buf, hasBuf, devIO>>

\* y_pos = 10 and the top text
TopText ==
    /\ obj = "gui" /\ pc = "TOP"
    /\ IF Truthy(config.top_text)
       THEN /\ Command(TextCmd(config, StartY, config.top_text), "BARCODE")
            /\ y_pos' = StartY + config.font_size + TEXT_GAP
       ELSE /\ Skip("BARCODE")
            /\ y_pos' = StartY
    /\ UNCHANGED CmdFrame

Barcode_textgap ==
    /\ obj = "gui" /\ pc = "BARCODE"
    /\ IF Truthy(config.barcode_data)
       THEN /\ Command(BarcodeCmd(config, y_pos), "BOTTOM")
            /\ y_pos' = y_pos + BarcodeHeightDots(config) + TEXT_GAP
       ELSE /\ Skip("BOTTOM")
            /\ y_pos' = y_pos
    /\ UNCHANGED CmdFrame

\* the barcode
Barcode ==
    /\ obj = "gui" /\ pc = "BARCODE"
    /\ IF Truthy(config.barcode_data)
       THEN /\ Command(BarcodeCmd(config, y_pos), "BOTTOM")
            /\ y_pos' = y_pos + BarcodeHeightDots(config) + BARCODE_GAP
       ELSE /\ Skip("BOTTOM")
            /\ y_pos' = y_pos
    /\ UNCHANGED CmdFrame

\* the bottom text
BottomText ==
    /\ obj = "gui" /\ pc = "BOTTOM"
    /\ IF Truthy(config.bottom_text)
       THEN Command(TextCmd(config, y_pos, config.bottom_text), "PRINT")
       ELSE Skip("PRINT")
    /\ UNCHANGED <<CmdFrame, y_pos>>

\* PRINT 1,<copies>
PrintLabel ==
    /\ obj = "gui" /\ pc = "PRINT"
    /\ Command(PrintCmd(config), "FLUSH")
    /\ UNCHANGED <<CmdFrame, y_pos>>

----------------------------------------------------------------------------
(* The Windows spooler job *)

SpoolCalls ==
    {"OpenPrinter", "StartDocPrinter", "StartPagePrinter", "WritePrinter",
     "EndPagePrinter", "EndDocPrinter", "ClosePrinter"}

Ev(call, F, data) == [call |-> call, ok |-> call \notin F, data |-> data]

AllOk(evs) == \A i \in 1..Len(evs) : evs[i].ok

\* the win32print calls _flush_commands makes when the calls in F raise
FlushPage(F, payload) ==
    IF "StartPagePrinter" \in F
    THEN << Ev("StartPagePrinter", F, <<>>) >>
    ELSE << Ev("StartPagePrinter", F, <<>>) >> \o
         (IF "WritePrinter" \in F
          THEN << Ev("WritePrinter", F, payload) >>
          ELSE << Ev("WritePrinter", F, payload),
                  Ev("EndPagePrinter", F, <<>>) >>)

FlushDoc_nofinally(F, payload) ==
    IF "StartDocPrinter" \in F
    THEN << Ev("StartDocPrinter", F, <<>>) >>
    ELSE << Ev("StartDocPrinter", F, <<>>) >> \o FlushPage(F, payload) \o
         (IF AllOk(FlushPage(F, payload))
          THEN << Ev("EndDocPrinter", F, <<>>) >>
          ELSE <<>>)

FlushDoc(F, payload) ==
    IF "StartDocPrinter" \in F
    THEN << Ev("StartDocPrinter", F, <<>>) >>
    ELSE << Ev("StartDocPrinter", F, <<>>) >> \o FlushPage(F, payload) \o
         << Ev("EndDocPrinter", F, <<>>) >>

FlushEvents(F, payload) ==
    IF "OpenPrinter" \in F
    THEN << Ev("OpenPrinter", F, <<>>) >>
    ELSE << Ev("OpenPrinter", F, <<>>) >> \o FlushDoc(F, payload) \o
         << Ev("ClosePrinter", F, <<>>) >>

\* ThermalPrinter._flush_commands
FlushCommands ==
    IF ~hasBuf \/ buf = <<>>
    THEN /\ pc' = "returned"
         /\ UNCHANGED <<err, spool, buf>>
    ELSE \E F \in SUBSET SpoolCalls :
           LET evs == FlushEvents(F, Join(buf)) IN
           /\ spool' = spool \o evs
           /\ IF AllOk(evs)
              THEN /\ buf' = <<>>
                   /\ pc' = "returned"
                   /\ err' = err
              ELSE /\ buf' = buf
                   /\ Raise("FlushError")

\* the last statement of print_barcode: flush on Windows, then return
Flush ==
    /\ obj = "gui" /\ pc = "FLUSH"
    /\ IF is_windows /\ ~dry_run /\ hasBuf
       THEN FlushCommands
       ELSE /\ pc' = "returned"
            /\ UNCHANGED <<err, spool, buf>>
    /\ UNCHANGED <<obj, dry_run, is_windows, printer, hasBuf, config, params,
                   y_pos, emitted, wire, stdout, sleeps, nreads, responses,
                   devIO, ops>>

\* ThermalPrinter.close
Close ==
    /\ obj = "gui"
    /\ pc \in {"idle", "returned", "raised"}
    /\ pc' = "closed"
    /\ IF is_windows
       THEN /\ buf' = <<>>
            /\ UNCHANGED <<printer, devIO>>
       ELSE IF printer # "None"
            THEN /\ printer' = "closed"
                 /\ devIO' = devIO \cup {"close"}
                 /\ buf' = buf
            ELSE UNCHANGED <<printer, devIO, buf>>
    /\ UNCHANGED <<obj, dry_run, is_windows, hasBuf, config, params, y_pos,
                   err, emitted, wire, stdout, spool, sleeps, nreads,
                   responses, ops>>

\* BarcodePrinterGUI.print_label when print_barcode raised: the except
\* clause reports the error and print_label is over; close() is skipped
PrintLabelExcept ==
    /\ obj = "gui"
    /\ pc = "raised"
    /\ pc' = "ended"
    /\ UNCHANGED <<obj, dry_run, is_windows, printer, hasBuf, buf, config,
                   params, y_pos, err, emitted, wire, stdout, spool, sleeps,
                   nreads, responses, devIO, ops>>

----------------------------------------------------------------------------
(* print-badge.py *)

BadgeXCenter == (WIDTH_MM * DOTS_MM) \div 2

YFirstLine == BADGE_GAP_MM * DOTS_MM

LineHeight == (FONT_HEIGHT \div 3 + LINES_GAP_MM) * DOTS_MM

YSecondLine == YFirstLine + LineHeight

BadgeTextCmd(y, text) ==
    <<"TEXT", BadgeXCenter, y, "0", 0, FONT_WIDTH, FONT_HEIGHT, 2, text>>

BadgeCommands_skipempty(p) ==
    << ClsCmd >> \o
    (IF p.line1 = "" THEN <<>> ELSE << BadgeTextCmd(YFirstLine, p.line1) >>) \o
    << BadgeTextCmd(YSecondLine, p.line2) >>

\* Badge.print
BadgeCommands(p) ==
    << ClsCmd, BadgeTextCmd(YFirstLine, p.line1),
       BadgeTextCmd(YSecondLine, p.line2) >>

\* positions of the loop over Badge.print(), then the PRINT statement
BadgePc == <<"BADGE1", "BADGE2", "BADGE3", "PRINT">>

\* Printer.command
BadgeCommand(cmd, next) ==
    /\ emitted' = Append(emitted, cmd)
    /\ IF dry_run
       THEN /\ stdout' = stdout \o <<cmd, LF>>
            /\ pc' = next
            /\ UNCHANGED <<err, wire, devIO>>
       ELSE /\ DeviceWrite(cmd, next)
            /\ devIO' = devIO \cup {"write"}
            /\ UNCHANGED stdout

BadgeFrame == <<obj, dry_run, is_windows, printer, hasBuf, buf, config,
                params, y_pos, spool, sleeps, nreads, responses, ops>>

\* main: Printer(params, badge) and the entry of printer.print()
BadgeMain ==
    /\ BetweenCalls
    /\ ops < MaxOps
    /\ \E p \in BadgeParams, dry \in BOOLEAN, ok \in BOOLEAN :
         /\ dry => ok
         /\ params' = p
         /\ dry_run' = dry
         /\ obj' = IF ok THEN "badge" ELSE "none"
         /\ pc' = IF ok THEN "wait" ELSE "none"
         /\ err' = IF ok THEN "none" ELSE "OpenError"
         /\ printer' = IF ~dry /\ ok THEN "open" ELSE "None"
         /\ devIO' = IF ~dry THEN {"open"} ELSE {}
         /\ ops' = IF ok THEN ops + 1 ELSE ops
    /\ is_windows' = FALSE
    /\ hasBuf' = FALSE
    /\ buf' = <<>>
    /\ emitted' = <<>>
    /\ wire' = <<>>
    /\ stdout' = <<>>
    /\ spool' = <<>>
    /\ sleeps' = <<>>
    /\ nreads' = 0
    /\ responses' = <<>>
    /\ config' = DefaultConfig
    /\ y_pos' = 0

\* Printer.wait_printer up to its first can_print()
BadgeWaitPrinter ==
    /\ obj = "badge" /\ pc = "wait"
    /\ IF dry_run
       THEN /\ pc' = "SIZE"
            /\ UNCHANGED <<err, wire, nreads, responses, devIO>>
       ELSE StatusQuery("SIZE", "sleep_short")
    /\ UNCHANGED <<obj, dry_run, is_windows, printer, hasBuf, buf, config,
                   params, y_pos, emitted, stdout, spool, sleeps, ops>>

BadgeWaitLoop ==
    /\ obj = "badge" /\ pc = "loop"
    /\ StatusQuery("SIZE", "sleep_long")
    /\ UNCHANGED <<obj, dry_run, is_windows, printer, hasBuf, buf, config,
                   params, y_pos, emitted, stdout, spool, sleeps, ops>>

\* Printer.page_setup, one command() call at a time
BadgeSize ==
    /\ obj = "badge" /\ pc = "SIZE"
    /\ BadgeCommand(<<"SIZE", WIDTH_MM, HEIGHT_MM>>, "GAP")
    /\ UNCHANGED BadgeFrame

BadgeGap ==
    /\ obj = "badge" /\ pc = "GAP"
    /\ BadgeCommand(<<"GAP", GAP_MM, 0>>, "CODEPAGE")
    /\ UNCHANGED BadgeFrame

BadgeCodepage ==
    /\ obj = "badge" /\ pc = "CODEPAGE"
    /\ BadgeCommand(CodepageCmd, "DIRECTION")
    /\ UNCHANGED BadgeFrame

BadgeDirection ==
    /\ obj = "badge" /\ pc = "DIRECTION"
    /\ BadgeCommand(<<"DIRECTION", params.orient>>, "BADGE1")
    /\ UNCHANGED BadgeFrame

\* `for cmd in self.badge.print(): self.command(cmd)`
BadgeLoop ==
    /\ obj = "badge"
    /\ \E i \in 1..Len(BadgeCommands(params)) :
         /\ pc = BadgePc[i]
         /\ BadgeCommand(BadgeCommands(params)[i], BadgePc[i + 1])
    /\ UNCHANGED BadgeFrame

\* PRINT 1,<num>
BadgePrint ==
    /\ obj = "badge" /\ pc = "PRINT"
    /\ BadgeCommand(<<"PRINT", 1, params.num>>, "ECHO")
    /\ UNCHANGED BadgeFrame

\* print(self.badge.line1, self.badge.line2) and the return to main
BadgeEcho ==
    /\ obj = "badge" /\ pc = "ECHO"
    /\ stdout' = stdout \o << <<params.line1, " ", params.line2>>, LF >>
    /\ pc' = "returned"
    /\ UNCHANGED <<BadgeFrame, err, emitted, wire, devIO>>

\* the end of main: printer.print() returned, or the except clause printed
\* the error; the Printer is never closed
BadgeMainEnd ==
    /\ obj = "badge"
    /\ pc \in {"returned", "raised"}
    /\ pc' = "ended"
    /\ UNCHANGED <<BadgeFrame, err, emitted, wire, stdout, devIO>>

----------------------------------------------------------------------------

Next ==
    \/ Construct
    \/ PrintBarcode
    \/ WaitPrinter
    \/ SleepShort
    \/ WaitLoop
    \/ SleepLong
    \/ SetupSize
    \/ SetupGap
    \/ SetupCodepage
    \/ SetupDirection
    \/ SetupCls
    \/ TopText
    \/ Barcode
    \/ BottomText
    \/ PrintLabel
    \/ Flush
    \/ Close
    \/ PrintLabelExcept
    \/ BadgeMain
    \/ BadgeWaitPrinter
    \/ BadgeWaitLoop
    \/ BadgeSize
    \/ BadgeGap
    \/ BadgeCodepage
    \/ BadgeDirection
    \/ BadgeLoop
    \/ BadgePrint
    \/ BadgeEcho
    \/ BadgeMainEnd

Spec == Init /\ [][Next]_vars

----------------------------------------------------------------------------
(* One print operation on the device file from the entry of wait_printer,
   with a device that may answer NotReady any number of times.  The
   histories of probes, responses and sleeps keep their last PollCap
   entries, and nreads stops counting at PollCap. *)

PollCap == MaxNotReady + 1

Capped(seq, x) ==
    IF Len(seq) < PollCap THEN Append(seq, x) ELSE Append(Tail(seq), x)

PollQuery_limited(ready, notready) ==
    \/ /\ Raise("OSError")
       /\ devIO' = devIO \cup {"write"}
       /\ UNCHANGED <<wire, nreads, responses>>
    \/ /\ Raise("OSError")
       /\ wire' = Capped(wire, PROBE)
       /\ nreads' = Min(nreads + 1, PollCap)
       /\ devIO' = devIO \cup {"write", "read"}
       /\ UNCHANGED responses
    \/ \E d \in DeviceResponses :
         LET r == Slice(d, 0, STATUS_READ_LEN) IN
         /\ wire' = Capped(wire, PROBE)
         /\ nreads' = Min(nreads + 1, PollCap)
         /\ devIO' = devIO \cup {"write", "read"}
         /\ responses' = Capped(responses, r)
         /\ IF ~Decodable(Slice(r, 1, 5))
            THEN Raise("UnicodeDecodeError")
            ELSE IF CanPrintToken(StatusToken(r))
                 THEN pc' = ready /\ err' = err
                 ELSE /\ pc' = IF nreads >= PollCap THEN ready ELSE notready
                      /\ err' = err

\* printer_status() and can_print() as in StatusQuery, any number of times
PollQuery(ready, notready) ==
    \/ /\ Raise("OSError")
       /\ devIO' = devIO \cup {"write"}
       /\ UNCHANGED <<wire, nreads, responses>>
    \/ /\ Raise("OSError")
       /\ wire' = Capped(wire, PROBE)
       /\ nreads' = Min(nreads + 1, PollCap)
       /\ devIO' = devIO \cup {"write", "read"}
       /\ UNCHANGED responses
    \/ \E d \in DeviceResponses :
         LET r == Slice(d, 0, STATUS_READ_LEN) IN
         /\ wire' = Capped(wire, PROBE)
         /\ nreads' = Min(nreads + 1, PollCap)
         /\ devIO' = devIO \cup {"write", "read"}
         /\ responses' = Capped(responses, r)
         /\ IF ~Decodable(Slice(r, 1, 5))
            THEN Raise("UnicodeDecodeError")
            ELSE IF CanPrintToken(StatusToken(r))
                 THEN pc' = ready /\ err' = err
                 ELSE pc' = notready /\ err' = err

\* ThermalPrinter.can_print
PollCanPrint(ready, notready) ==
    IF dry_run \/ is_windows
    THEN /\ pc' = ready
         /\ UNCHANGED <<err, wire, nreads, responses, devIO>>
    ELSE PollQuery(ready, notready)

PollFrame == <<obj, dry_run, is_windows, printer, hasBuf, buf, config,
               params, y_pos, emitted, stdout, spool, ops>>

\* ThermalPrinter.wait_printer up to its first can_print()
PollWaitPrinter ==
    /\ obj = "gui" /\ pc = "wait"
    /\ IF dry_run
       THEN /\ pc' = "SIZE"
            /\ UNCHANGED <<err, wire, nreads, responses, devIO>>
       ELSE PollCanPrint("SIZE", "sleep_short")
    /\ UNCHANGED <<PollFrame, sleeps>>

\* the condition of `while not self.can_print()`
PollWaitLoop ==
    /\ obj = "gui" /\ pc = "loop"
    /\ PollCanPrint("SIZE", "sleep_long")
    /\ UNCHANGED <<PollFrame, sleeps>>

\* Printer.wait_printer of print-badge.py up to its first can_print()
PollBadgeWaitPrinter ==
    /\ obj = "badge" /\ pc = "wait"
    /\ IF dry_run
       THEN /\ pc' = "SIZE"
            /\ UNCHANGED <<err, wire, nreads, responses, devIO>>
       ELSE PollQuery("SIZE", "sleep_short")
    /\ UNCHANGED <<PollFrame, sleeps>>

PollBadgeWaitLoop ==
    /\ obj = "badge" /\ pc = "loop"
    /\ PollQuery("SIZE", "sleep_long")
    /\ UNCHANGED <<PollFrame, sleeps>>

\* time.sleep(0.5) after the first failed check
PollSleepShort ==
    /\ pc = "sleep_short"
    /\ sleeps' = Capped(sleeps, SHORT_SLEEP)
    /\ pc' = "loop"
    /\ UNCHANGED <<PollFrame, err, wire, nreads, responses, devIO>>

\* time.sleep(1) in the loop body
PollSleepLong ==
    /\ pc = "sleep_long"
    /\ sleeps' = Capped(sleeps, LONG_SLEEP)
    /\ pc' = "loop"
    /\ UNCHANGED <<PollFrame, err, wire, nreads, responses, devIO>>

\* print_barcode(config) or printer.print() entered on an open device file
InitPoll ==
    /\ \/ obj = "gui" /\ config \in Configs /\ params = NoParams
       \/ obj = "badge" /\ config = DefaultConfig /\ params \in BadgeParams
    /\ dry_run = FALSE
    /\ is_windows = FALSE
    /\ printer = "open"
    /\ hasBuf = FALSE
    /\ buf = <<>>
    /\ pc = "wait"
    /\ y_pos = 0
    /\ err = "none"
    /\ emitted = <<>>
    /\ wire = <<>>
    /\ stdout = <<>>
    /\ spool = <<>>
    /\ sleeps = <<>>
    /\ nreads = 0
    /\ responses = <<>>
    /\ devIO = {"open"}
    /\ ops = 1

NextPoll ==
    \/ PollWaitPrinter
    \/ PollSleepShort
    \/ PollWaitLoop
    \/ PollSleepLong
    \/ SetupSize
    \/ SetupGap
    \/ SetupCodepage
    \/ SetupDirection
    \/ SetupCls
    \/ TopText
    \/ Barcode
    \/ BottomText
    \/ PrintLabel
    \/ Flush
    \/ PollBadgeWaitPrinter
    \/ PollBadgeWaitLoop
    \/ BadgeSize
    \/ BadgeGap
    \/ BadgeCodepage
    \/ BadgeDirection
    \/ BadgeLoop
    \/ BadgePrint
    \/ BadgeEcho

\* the program is one thread: a step that can be taken is taken
SpecPoll == InitPoll /\ [][NextPoll]_vars /\ WF_vars(NextPoll)

----------------------------------------------------------------------------
(* The readiness check alone, on every short response over StatusBytes *)

MaxBodyLen == 4

StatusBytes == {64, 66, 67, 69, 70, 80, 87, 255}

StatusBodies == UNION { [1..n -> StatusBytes] : n \in 0..MaxBodyLen }

StatusInputs ==
    { <<2>> \o b \o t : b \in StatusBodies, t \in {<<>>, <<3, 13, 10>>} }
      \cup {<<>>}

InitStatus ==
    /\ obj = "none"
    /\ dry_run = FALSE
    /\ is_windows = FALSE
    /\ printer = "open"
    /\ hasBuf = FALSE
    /\ buf = <<>>
    /\ pc = "query"
    /\ config = DefaultConfig
    /\ params = NoParams
    /\ y_pos = 0
    /\ err = "none"
    /\ emitted = <<>>
    /\ wire = <<PROBE>>
    /\ stdout = <<>>
    /\ spool = <<>>
    /\ sleeps = <<>>
    /\ nreads = 1
    /\ \E d \in StatusInputs : responses = << Slice(d, 0, STATUS_READ_LEN) >>
    /\ devIO = {"open", "write", "read"}
    /\ ops = 0

\* printer_status() slices and decodes the response, can_print() matches it
ApplyCanPrint ==
    /\ pc = "query"
    /\ IF ~Decodable(Slice(responses[1], 1, 5))
       THEN Raise("UnicodeDecodeError")
       ELSE /\ pc' = IF CanPrintToken(StatusToken(responses[1]))
                     THEN "ready" ELSE "notready"
            /\ err' = err
    /\ UNCHANGED <<obj, dry_run, is_windows, printer, hasBuf, buf, config,
                   params, y_pos, emitted, wire, stdout, spool, sleeps,
                   nreads, responses, devIO, ops>>

NextStatus == ApplyCanPrint

SpecStatus == InitStatus /\ [][NextStatus]_vars

----------------------------------------------------------------------------
(* Properties *)

Name(cmd) == cmd[1]

IsDraw(cmd) == Name(cmd) \in {"TEXT", "BARCODE"}

Last(s) == s[Len(s)]

\* the copies operand of the running operation
Copies == IF obj = "badge" THEN params.num ELSE config.num_copies

\* the print operation has returned to its caller
OpReturned == obj \in {"gui", "badge"} /\ pc = "returned"

\* the command lines the operation wrote to the device file so far
DeviceLines == SplitLines(Join(SelectChunks(wire)), CRLF, <<>>)

ClsBeforeDraw(cmds) ==
    \A i \in 1..Len(cmds) :
        IsDraw(cmds[i]) => \E j \in 1..(i - 1) : cmds[j] = <<"CLS">>

NothingAfterPrint(cmds) ==
    \A i \in 1..Len(cmds) : Name(cmds[i]) = "PRINT" => i = Len(cmds)

\* C1: in the commands one print operation emits, on every transport, CLS
\* comes before the first TEXT or BARCODE, nothing follows a PRINT, and an
\* operation that returns has emitted PRINT 1,<copies> as its last command;
\* the lines that reached the device file obey the same order.
C1_Ordering ==
    /\ ClsBeforeDraw(emitted)
    /\ NothingAfterPrint(emitted)
    /\ OpReturned =>
         /\ emitted # <<>>
         /\ Last(emitted) = <<"PRINT", 1, Copies>>
    /\ Len(DeviceLines) <= Len(emitted)
    /\ \A i \in 1..Len(DeviceLines) : DeviceLines[i] = <<emitted[i]>>

C1_Witness ==
    /\ OpReturned /\ obj = "gui" /\ Variant = "dev"
    /\ config.num_copies = 2
    /\ Len(emitted) = 9
    /\ Len(DeviceLines) = 9

\* the five commands every print operation starts with
Preamble ==
    IF obj = "badge"
    THEN << <<"SIZE", 100, 35>>, <<"GAP", 2, 0>>, <<"CODEPAGE", "UTF-8">>,
            <<"DIRECTION", params.orient>>, <<"CLS">> >>
    ELSE << <<"SIZE", config.width_mm, config.height_mm>>,
            <<"GAP", config.gap_mm, 0>>, <<"CODEPAGE", "UTF-8">>,
            <<"DIRECTION", config.orientation>>, <<"CLS">> >>

PreambleNames == {"SIZE", "GAP", "CODEPAGE", "DIRECTION", "CLS"}

\* C2: the first five commands of a print operation are SIZE w,h; GAP g,0;
\* CODEPAGE UTF-8; DIRECTION 0|1; CLS in this order, none of the five is
\* emitted again later in the operation, and an operation that returns has
\* emitted all five.
C2_Preamble ==
    /\ \A i \in 1..Len(emitted) :
         IF i <= 5 THEN emitted[i] = Preamble[i]
                   ELSE Name(emitted[i]) \notin PreambleNames
    /\ Len(emitted) >= 4 => emitted[4][2] \in {0, 1}
    /\ OpReturned => Len(emitted) > 5

C2_Witness ==
    /\ OpReturned /\ obj = "gui" /\ Variant = "win"
    /\ config.gap_mm = 3 /\ config.orientation = 0
    /\ Len(emitted) = 8

\* the draw commands of a returned print_barcode: all but preamble and PRINT
Draws == SubSeq(emitted, 6, Len(emitted) - 1)

\* kind and content of the elements of a configuration that are not empty
Elements(c) ==
    (IF c.top_text # "" THEN << <<"TEXT", c.top_text>> >> ELSE <<>>) \o
    (IF c.barcode_data # "" THEN << <<"BARCODE", c.barcode_data>> >>
                            ELSE <<>>) \o
    (IF c.bottom_text # "" THEN << <<"TEXT", c.bottom_text>> >> ELSE <<>>)

\* C3: print_barcode emits one draw command per non-empty element and none
\* for an empty one, in the order top text, barcode, bottom text, so that a
\* returned operation has emitted 5 + (non-empty elements) + 1 commands.
C3_Omission ==
    (OpReturned /\ obj = "gui") =>
        /\ Len(emitted) = 5 + Len(Elements(config)) + 1
        /\ \A i \in 1..Len(Elements(config)) :
             /\ i <= Len(Draws)
             /\ Name(Draws[i]) = Elements(config)[i][1]
             /\ Last(Draws[i]) = Elements(config)[i][2]
        /\ config.barcode_data = ""
             => \A i \in 1..Len(emitted) : Name(emitted[i]) # "BARCODE"

C3_Witness ==
    /\ OpReturned /\ obj = "gui"
    /\ config.top_text # "" /\ config.barcode_data = ""
    /\ config.bottom_text # ""
    /\ Len(emitted) = 8

\* C4: the readiness check answers Ready exactly for the four-character
\* tokens whose first character is one of @ B C F P W and whose other three
\* are @; E@@@, @B@@, the empty token and every other token are NotReady.
C4_Readiness ==
    pc \in {"ready", "notready"} =>
        LET tok == StatusToken(responses[1]) IN
        /\ (pc = "ready") <=>
              /\ Len(tok) = 4
              /\ tok[1] \in {"@", "B", "C", "F", "P", "W"}
              /\ \A i \in 2..4 : tok[i] = "@"
        /\ tok \in { <<"E", "@", "@", "@">>, <<"@", "B", "@", "@">>, <<>> }
              => pc = "notready"

C4_Witness ==
    /\ pc = "ready"
    /\ StatusToken(responses[1]) = <<"W", "@", "@", "@">>

\* a response whose bytes 1..4 spell a Ready token
IsReadyResp(r) ==
    /\ Len(r) >= 5
    /\ r[2] \in {64, 66, 67, 70, 80, 87}
    /\ \A i \in 3..5 : r[i] = 64

Streaming == obj \in {"gui", "badge"} /\ ~dry_run /\ ~is_windows

RECURSIVE Sum(_)
Sum(s) == IF s = <<>> THEN 0 ELSE Head(s) + Sum(Tail(s))

\* C5: when wait_printer returns on the device file after the device
\* answered NotReady k times and then Ready, it has made k+1 status queries,
\* each one probe write and one read of its own, has slept 0.5 after the
\* first NotReady and 1.0 after each later one, and not at all for k = 0;
\* for k = 2 that is 3 queries and a wait of 0.5 + 1.0.
C5_Backoff ==
    (Streaming /\ pc = "SIZE") =>
        LET k == Len(responses) - 1 IN
        /\ k >= 0
        /\ IsReadyResp(responses[k + 1])
        /\ \A i \in 1..k : ~IsReadyResp(responses[i])
        /\ nreads = k + 1
        /\ wire = [i \in 1..(k + 1) |-> PROBE]
        /\ sleeps = [i \in 1..k |-> IF i = 1 THEN 5 ELSE 10]
        /\ k = 2 => nreads = 3 /\ Sum(sleeps) = 15

C5_Witness ==
    /\ Streaming /\ pc = "SIZE"
    /\ Len(responses) = 3
    /\ sleeps = <<5, 10>>

\* C6: on the device file nothing but status probes is written before a
\* status query has returned a Ready token: the first write that is not a
\* probe is the SIZE command, it follows the probes directly, and the most
\* recent response read before it is a Ready token.
C6_ReadyBeforeCommands ==
    Streaming =>
        \A i \in 1..Len(wire) :
            wire[i] # PROBE =>
                /\ responses # <<>>
                /\ IsReadyResp(Last(responses))
                /\ (\A j \in 1..(i - 1) : wire[j] = PROBE) =>
                       /\ Name(wire[i][1]) = "SIZE"
                       /\ i = Len(responses) + 1
                       /\ nreads = Len(responses)

C6_Witness ==
    /\ Streaming /\ pc = "GAP"
    /\ Len(wire) = 4
    /\ ~IsReadyResp(responses[1])

\* C7: a dry-run object does no device I/O at all, in construction, in the
\* print operation and in close: no handle is opened or closed, no probe or
\* command is written, nothing is read, no spooler call is made; the
\* readiness loop is never entered and nothing sleeps.
C7_DryRunNoIO ==
    (obj \in {"gui", "badge"} /\ dry_run) =>
        /\ devIO = {}
        /\ printer = "None"
        /\ wire = <<>>
        /\ nreads = 0
        /\ responses = <<>>
        /\ spool = <<>>
        /\ sleeps = <<>>
        /\ pc \notin {"sleep_short", "loop", "sleep_long"}

C7_Witness ==
    /\ obj = "gui" /\ dry_run /\ pc = "closed"
    /\ Len(emitted) = 9
    /\ Len(stdout) = 18

\* the y of the barcode and of the bottom text of a label
ExpectedYBarcode(c) ==
    10 + (IF c.top_text # "" THEN c.font_size + 10 ELSE 0)

ExpectedYBottom(c) ==
    ExpectedYBarcode(c) +
        (IF c.barcode_data # "" THEN c.barcode_height * 8 + 20 ELSE 0)

\* the command sequence of a label, as a function of its configuration only
ExpectedCommands(c) ==
    << <<"SIZE", c.width_mm, c.height_mm>>, <<"GAP", c.gap_mm, 0>>,
       <<"CODEPAGE", "UTF-8">>, <<"DIRECTION", c.orientation>>, <<"CLS">> >>
    \o (IF c.top_text # ""
        THEN << <<"TEXT", (c.width_mm * 8) \div 2, 10, "0", 0,
                  c.font_size, c.font_size, 2, c.top_text>> >>
        ELSE <<>>)
    \o (IF c.barcode_data # ""
        THEN << <<"BARCODE", (c.width_mm * 8) \div 2, ExpectedYBarcode(c),
                  "128", c.barcode_height * 8, 1, 0, c.barcode_width, 2,
                  c.barcode_data>> >>
        ELSE <<>>)
    \o (IF c.bottom_text # ""
        THEN << <<"TEXT", (c.width_mm * 8) \div 2, ExpectedYBottom(c), "0", 0,
                  c.font_size, c.font_size, 2, c.bottom_text>> >>
        ELSE <<>>)
    \o << <<"PRINT", 1, c.num_copies>> >>

\* C8: whichever transport a ThermalPrinter uses, the command lines a
\* returned print operation logged (dry-run), wrote to the device file
\* (streaming) or handed to the spooler as job payload (Windows) are, line
\* for line, the one command sequence of its configuration.
C8_SameLinesOnAllTransports ==
    (OpReturned /\ obj = "gui") =>
        OutputLines = [i \in 1..Len(ExpectedCommands(config)) |->
                          << ExpectedCommands(config)[i] >>]

\* C9: the commands a returned print_barcode emitted are a function of its
\* configuration alone, whatever ran earlier on the same object and
\* whatever the device answered: equal configurations, equal sequences.
C9_Deterministic ==
    (OpReturned /\ obj = "gui") => emitted = ExpectedCommands(config)

C9_Witness ==
    /\ OpReturned /\ obj = "gui" /\ ops = 2
    /\ Variant = "dev"
    /\ Len(responses) = 2
    /\ Len(emitted) = 9

\* the step read one more status response
ReadResponse == Len(responses') = Len(responses) + 1

\* fewer bytes than asked for, or a byte that is not ASCII
Malformed(r) == Len(r) < 8 \/ \E i \in 1..Len(r) : r[i] >= 128

\* a byte at offsets 1..4 of the response is not ASCII
TokenUndecodable(r) == \E i \in 2..Min(5, Len(r)) : r[i] >= 128

\* C10 as stated: every malformed status response is taken as NotReady and
\* never raises: the poll goes to sleep in order to query again.
C10_MalformedIsNotReady ==
    [][ (ReadResponse /\ Malformed(Last(responses')))
            => /\ err' = "none"
               /\ pc' \in {"sleep_short", "sleep_long"} ]_vars

\* C10 amended: a response that leaves fewer than four token bytes (all of
\* them ASCII) is taken as NotReady without an error, and the poll sleeps
\* and queries again; a response with a non-ASCII byte at offsets 1..4
\* raises UnicodeDecodeError out of the poll, with no sleep and no retry.
C10_MalformedAmended ==
    [][ /\ ReadResponse =>
             LET r == Last(responses') IN
             /\ TokenUndecodable(r) =>
                    /\ pc' = "raised"
                    /\ err' = "UnicodeDecodeError"
                    /\ sleeps' = sleeps
             /\ (Len(r) < 5 /\ ~TokenUndecodable(r)) =>
                    /\ pc' \in {"sleep_short", "sleep_long"}
                    /\ err' = "none"
        /\ pc \in {"sleep_short", "sleep_long"} =>
             /\ pc' = "loop"
             /\ Len(sleeps') = Len(sleeps) + 1
        /\ pc = "loop" =>
             \/ nreads' = nreads + 1
             \/ pc' = "raised" /\ err' = "OSError"
        /\ pc = "raised" => pc' \notin {"sleep_short", "loop", "sleep_long"}
      ]_vars

C10_Witness ==
    /\ Streaming /\ pc = "raised" /\ err = "UnicodeDecodeError"
    /\ Len(responses) = 2
    /\ Len(responses[1]) = 3
    /\ sleeps = <<5>>
    /\ emitted = <<>>


InvalidGeometry(c) == c.width_mm <= 0 \/ c.height_mm <= 0

\* C11 as stated: a print_barcode whose configuration has a width or height
\* that is not positive is rejected before any I/O: nothing is probed,
\* read, written, logged or buffered for it, and it does not return.
C11_RejectedBeforeIO ==
    (obj = "gui" /\ ops > 0 /\ pc # "idle" /\ InvalidGeometry(config)) =>
        /\ emitted = <<>>
        /\ wire = <<>>
        /\ stdout = <<>>
        /\ spool = <<>>
        /\ nreads = 0
        /\ pc # "returned"


\* C12: every operation that opened the device handle has closed it when
\* it is over, on success and on failure alike: once print_label or main
\* has ended, no handle is left open.
C12_HandleReleased == pc = "ended" => printer # "open"


Spooler == obj = "gui" /\ is_windows /\ ~dry_run

\* the win32print calls of the step being taken
NewCalls == SubSeq(spool', Len(spool) + 1, Len(spool'))

CallAt(evs, call) == { i \in 1..Len(evs) : evs[i].call = call }

\* the buffer as one payload: its commands in order, each followed by CRLF
IsPayloadOf(payload, b) ==
    /\ Len(payload) = 2 * Len(b)
    /\ \A k \in 1..Len(b) :
          /\ payload[2 * k - 1] = b[k][1]
          /\ payload[2 * k] = CRLF

\* C13: on the Windows spooler a command() call only appends the command
\* and CRLF to the buffer and sends nothing; the printer is reached only by
\* the flush, which opens the printer, starts one job, sends the whole
\* buffer in one WritePrinter call and ends the job; once the job was
\* started EndDocPrinter is called, and once the printer was opened
\* ClosePrinter is called, whichever call in between failed.
C13_SpoolerBuffers ==
    [][(Spooler /\ ~BetweenCalls) =>
          /\ wire' = wire
          /\ emitted' # emitted =>
                /\ spool' = spool
                /\ buf' = Append(buf, <<Last(emitted'), CRLF>>)
          /\ spool' # spool =>
                /\ pc = "FLUSH"
                /\ buf # <<>>
                /\ NewCalls[1].call = "OpenPrinter"
                /\ Cardinality(CallAt(NewCalls, "WritePrinter")) <= 1
                /\ \A i \in CallAt(NewCalls, "WritePrinter") :
                      /\ NewCalls[i].data = Join(buf)
                      /\ IsPayloadOf(NewCalls[i].data, buf)
                      /\ NewCalls[i - 1] =
                            [call |-> "StartPagePrinter", ok |-> TRUE,
                             data |-> <<>>]
                /\ \A i \in 1..Len(NewCalls) :
                      NewCalls[i].call # "WritePrinter" =>
                          NewCalls[i].data = <<>>
                /\ \A i \in CallAt(NewCalls, "StartDocPrinter") :
                      NewCalls[i].ok =>
                          NewCalls[Len(NewCalls) - 1].call = "EndDocPrinter"
                /\ NewCalls[1].ok => Last(NewCalls).call = "ClosePrinter"
                /\ Cardinality(CallAt(NewCalls, "OpenPrinter")) = 1
                /\ Cardinality(CallAt(NewCalls, "StartDocPrinter")) <= 1
                /\ pc' = "returned" =>
                      /\ Len(NewCalls) = 7
                      /\ Cardinality(CallAt(NewCalls, "WritePrinter")) = 1
    ]_vars

\* a flush whose WritePrinter failed: the job was ended and the printer
\* closed, and the operation raised
C13_Witness ==
    /\ Spooler /\ pc = "raised"
    /\ Len(spool) = 6
    /\ spool[4].call = "WritePrinter" /\ ~spool[4].ok
    /\ IsPayloadOf(spool[4].data, buf) /\ Len(buf) >= 6
    /\ spool[5].call = "EndDocPrinter"
    /\ spool[6].call = "ClosePrinter"


DrawsSoFar == SelectSeq(emitted, IsDraw)

YOf(cmd) == cmd[3]

\* the height an emitted draw command takes on the label
RenderedHeight(cmd) ==
    IF Name(cmd) = "TEXT" THEN config.font_size
    ELSE config.barcode_height * 8

\* C14 as stated: the first draw command is at y = 10 and each later one
\* at the previous y plus the previous element's height plus one gap that
\* is the same after a text and after a barcode.
C14_OneGap ==
    obj = "gui" =>
        \E g \in 0..40 :
            \A k \in 1..Len(DrawsSoFar) :
                YOf(DrawsSoFar[k]) =
                    IF k = 1 THEN 10
                    ELSE YOf(DrawsSoFar[k - 1])
                         + RenderedHeight(DrawsSoFar[k - 1]) + g

\* C14 amended: the first draw command is at y = 10 and each later one at
\* the previous y plus the previous element's height plus a gap of 10 dots
\* after a text and of 20 dots after a barcode; an element with empty
\* content is not emitted and adds nothing.
C14_GapPerKind ==
    obj = "gui" =>
        /\ \A k \in 1..Len(DrawsSoFar) :
              YOf(DrawsSoFar[k]) =
                  IF k = 1 THEN 10
                  ELSE YOf(DrawsSoFar[k - 1])
                       + RenderedHeight(DrawsSoFar[k - 1])
                       + (IF Name(DrawsSoFar[k - 1]) = "TEXT" THEN 10 ELSE 20)
        /\ Len(DrawsSoFar) <= Len(Elements(config))

C14_Witness ==
    /\ OpReturned /\ obj = "gui"
    /\ Len(DrawsSoFar) = 3
    /\ Name(DrawsSoFar[2]) = "BARCODE"
    /\ YOf(DrawsSoFar[2]) = 10 + config.font_size + 10
    /\ YOf(DrawsSoFar[3]) = YOf(DrawsSoFar[2]) + config.barcode_height * 8 + 20


\* C15: the BARCODE command carries the symbology of the configured
\* barcode_type, so that the operand "128" stands for code128 and for no
\* other type, followed by the height in dots, 1, 0, the narrow-bar
\* multiplier, 2 and the data.
C15_SymbologyFollowsType ==
    obj = "gui" =>
        \A i \in 1..Len(emitted) :
            Name(emitted[i]) = "BARCODE" =>
                /\ (emitted[i][4] = "128") <=> (config.barcode_type = "code128")
                /\ emitted[i][2] = (config.width_mm * 8) \div 2
                /\ SubSeq(emitted[i], 5, 10) =
                      <<config.barcode_height * 8, 1, 0, config.barcode_width,
                        2, config.barcode_data>>


PollPcs == {"wait", "loop", "sleep_short", "sleep_long"}

OnlyProbes == \A i \in 1..Len(wire) : wire[i] = PROBE

LastIsReady == responses # <<>> /\ IsReadyResp(Last(responses))

PrintEmitted == emitted # <<>> /\ Name(Last(emitted)) = "PRINT"

SentWhole(n) ==
    [k \in 1..(2 * n) |->
        IF k % 2 = 1 THEN <<emitted[(k + 1) \div 2]>> ELSE <<CRLF>>]

\* C17: when a write of command() fails on the device file at the i-th
\* command, the operation raises: the writes made for the operation are
\* those of the commands before the i-th, once each and in order, with at
\* most the text of the i-th without its CRLF; nothing is written
\* afterwards, the i-th is not written again, no command after it is
\* emitted and no PRINT line has been completed.
C17_WriteFailureAborts ==
    (Streaming /\ err = "OSError" /\ emitted # <<>>) =>
        LET i == Len(emitted) IN
        /\ pc \in {"raised", "closed", "ended"}
        /\ SelectChunks(wire) \in
              { SentWhole(i - 1), Append(SentWhole(i - 1), <<emitted[i]>>) }
        /\ \A k \in 1..(i - 1) : Name(emitted[k]) # "PRINT"
        /\ \A k \in 1..(i - 1) : \A j \in 1..(i - 1) :
              emitted[k] = emitted[j] => k = j
        /\ i <= IF obj = "gui" THEN 5 + Len(Elements(config)) + 1 ELSE 8

\* the write of the CRLF after the second draw command failed
C17_Witness ==
    /\ Streaming /\ obj = "gui" /\ pc = "raised" /\ err = "OSError"
    /\ Len(emitted) = 7
    /\ Len(SelectChunks(wire)) = 13
    /\ Last(wire) = <<emitted[7]>>


NamedAt(data, name) == { k \in 1..Len(data) : Name(data[k]) = name }

\* C18: on the Windows spooler the command buffer is empty whenever
\* print_barcode starts, and every payload handed to WritePrinter holds the
\* commands of one operation only: one SIZE, one PRINT, the PRINT last.
C18_OneOperationPerPayload ==
    Spooler =>
        /\ pc = "wait" => buf = <<>>
        /\ \A i \in CallAt(spool, "WritePrinter") :
              /\ Cardinality(NamedAt(spool[i].data, "SIZE")) = 1
              /\ Cardinality(NamedAt(spool[i].data, "PRINT")) = 1
              /\ IsPayloadOf(spool[i].data,
                             [k \in 1..Len(emitted) |-> <<emitted[k], CRLF>>])


\* the eight commands of a badge, written out
ExpectedBadge(p) ==
    << <<"SIZE", 100, 35>>,
       <<"GAP", 2, 0>>,
       <<"CODEPAGE", "UTF-8">>,
       <<"DIRECTION", p.orient>>,
       <<"CLS">>,
       <<"TEXT", 400, 5 * 8, "0", 0, 36, 36, 2, p.line1>>,
       <<"TEXT", 400, 5 * 8 + (36 \div 3 + 1) * 8, "0", 0, 36, 36, 2, p.line2>>,
       <<"PRINT", 1, p.num>> >>

\* C19: the badge printer emits SIZE, GAP, CODEPAGE, DIRECTION, CLS, TEXT
\* for line1 at y_first_line, TEXT for line2 at y_first_line + line_height
\* and PRINT 1,num, in this order: what it has emitted is at any time a
\* prefix of these eight commands, and all eight when print() has returned;
\* both TEXT commands are there for empty lines too, at the same y.
C19_BadgeCommands ==
    obj = "badge" =>
        /\ Len(emitted) <= 8
        /\ emitted = SubSeq(ExpectedBadge(params), 1, Len(emitted))
        /\ pc \in {"ECHO", "returned"} => Len(emitted) = 8
        /\ (pc = "returned" /\ ~dry_run) =>
              SelectChunks(wire) = SentWhole(8)

C19_Witness ==
    /\ obj = "badge" /\ pc = "returned"
    /\ params.line1 = "" /\ params.line2 = ""
    /\ Len(emitted) = 8
    /\ emitted[6][3] = 40 /\ emitted[7][3] = 144
    /\ emitted[6][9] = "" /\ emitted[7][9] = ""

====
